---------------------------- MODULE Spec2Model ----------------------------
(***************************************************************************)
(* A model of syfertext/utils.py: the tiered resource search               *)
(* (search_resource), the SMPC participant selection (create_mpc_config)   *)
(* and the slice arithmetic helper (normalize_slice).                      *)
(*                                                                         *)
(* One behaviour of the model is one call of one of the three functions.   *)
(* Init draws the call and its inputs (the worker registry, the local      *)
(* object store, the state of the disk cache, the slice arguments); the    *)
(* actions are the steps of the called function.  The external             *)
(* collaborators (BaseWorker.search, BaseWorker.request_search, dill.load, *)
(* numpy.random.choice) are modelled at their interface: what they return  *)
(* or raise is an input drawn when they are called.                        *)
(***************************************************************************)
EXTENDS Integers, Sequences, FiniteSets, TLC

VARIABLES
    call,            \* which function this behaviour calls
    pc,              \* position inside the called function
    known_workers,   \* worker._known_workers: ids in dict (insertion) order
    local_store,     \* what local_worker.search(query) returns (a list)
    cache_dir,       \* os.path.exists(data_path)
    cache_file,      \* what lies at data_path + target
    local_searches,  \* number of calls of local_worker.search
    cache_reads,     \* number of look-ups of the disk cache
    queried,         \* locations request_search was sent to, in order
    replies,         \* what each request_search returned or raised
    outcome,         \* "pending", "returned" or "raised"
    error,           \* the exception raised, "none" if none
    result,          \* the value search_resource returned
    mpc_config,      \* the dictionary create_mpc_config returned
    sl_in,           \* the arguments of normalize_slice
    sl_out           \* the pair normalize_slice returned

vars == << call, pc, known_workers, local_store, cache_dir, cache_file,
           local_searches, cache_reads, queried, replies, outcome, error,
           result, mpc_config, sl_in, sl_out >>

-----------------------------------------------------------------------------
(* Bounds of the model *)

MaxPeers == 4       \* worker ids other than "me" are 1..MaxPeers
MaxMatches == 2     \* a search returns at most this many objects
MaxLen == 6         \* document lengths 0..MaxLen
MaxIdx == 7         \* slice bounds range over -MaxIdx..MaxIdx and None

(* The id of the local worker, the string "me" of the source *)
Me == 0

WorkerIds == 0..MaxPeers

(* A Python dict with distinct keys, in insertion order *)
Registries ==
    { s \in UNION { [1..n -> WorkerIds] : n \in 0..(MaxPeers + 1) } :
        \A i, j \in DOMAIN s : i # j => s[i] # s[j] }

(* A Python list of n distinct objects, named 1..n *)
ObjList(n) == [i \in 1..n |-> i]

(* Optional integers: None is << >>, the integer v is << v >> *)
None == << >>
Some(v) == << v >>
IsNone(x) == Len(x) = 0
Val(x) == x[1]

NoResult == [kind |-> "unset", loc |-> Me, obj |-> 0]
NoneResult == [kind |-> "None", loc |-> Me, obj |-> 0]
EmptyDict == [r \in {} |-> Me]
NoSlice == [length |-> 0, start |-> None, stop |-> None, step |-> None]

Min(a, b) == IF a <= b THEN a ELSE b
Max(a, b) == IF a >= b THEN a ELSE b

-----------------------------------------------------------------------------
(* search_resource *)

CacheFiles == {"missing", "directory", "empty", "valid", "corrupt"}

(* os.path.isfile(data_path + target) *)
IsFile(f) == f \in {"empty", "valid", "corrupt"}

(* os.path.getsize(data_path + target) *)
GetSize(f) == IF f = "empty" THEN 0 ELSE 1

(* what request_search can do: return a list of 0..MaxMatches pointers, or raise *)
Replies ==
    { [kind |-> "list", n |-> n] : n \in 0..MaxMatches }
        \cup { [kind |-> "error", n |-> 0] }

InitSearch ==
    /\ call = "search_resource"
    /\ pc = "local"
    /\ known_workers \in Registries
    /\ local_store \in { ObjList(n) : n \in 0..MaxMatches }
    /\ cache_dir \in BOOLEAN
    /\ cache_file \in CacheFiles
    /\ (~cache_dir => cache_file = "missing")
    /\ local_searches = 0
    /\ cache_reads = 0
    /\ queried = << >>
    /\ replies = << >>
    /\ outcome = "pending"
    /\ error = "none"
    /\ result = NoResult
    /\ mpc_config = EmptyDict
    /\ sl_in = NoSlice
    /\ sl_out = << 0, 0 >>

Return(v) ==
    /\ pc' = "done"
    /\ outcome' = "returned"
    /\ result' = v
    /\ error' = "none"

Raise(e) ==
    /\ pc' = "done"
    /\ outcome' = "raised"
    /\ error' = e
    /\ UNCHANGED result

Continue(next) ==
    /\ pc' = next
    /\ UNCHANGED << outcome, error, result >>

(* Lines 161-172 with the early return dropped: a local match falls through *)
LocalSearchNoReturn ==
    /\ call = "search_resource"
    /\ pc = "local"
    /\ local_searches' = local_searches + 1
    /\ Continue("cache")
    /\ UNCHANGED << call, known_workers, local_store, cache_dir, cache_file,
                    cache_reads, queried, replies, mpc_config, sl_in, sl_out >>

(* Lines 161-172 with the assertion dropped: the first of several is returned *)
LocalSearchNoAssert ==
    /\ call = "search_resource"
    /\ pc = "local"
    /\ local_searches' = local_searches + 1
    /\ IF Len(local_store) > 0
          THEN Return([kind |-> "object", loc |-> Me, obj |-> local_store[1]])
          ELSE Continue("cache")
    /\ UNCHANGED << call, known_workers, local_store, cache_dir, cache_file,
                    cache_reads, queried, replies, mpc_config, sl_in, sl_out >>

(* Lines 161-172: the search on the local worker *)
LocalSearch ==
    /\ call = "search_resource"
    /\ pc = "local"
    /\ local_searches' = local_searches + 1
    /\ IF Len(local_store) > 0
          THEN IF Len(local_store) = 1
                  THEN Return([kind |-> "object", loc |-> Me, obj |-> local_store[1]])
                  ELSE Raise("AssertionError")
          ELSE Continue("cache")
    /\ UNCHANGED << call, known_workers, local_store, cache_dir, cache_file,
                    cache_reads, queried, replies, mpc_config, sl_in, sl_out >>

(* Lines 174-195 without the getsize test: an empty file is handed to dill *)
CacheLookupNoSize ==
    /\ call = "search_resource"
    /\ pc = "cache"
    /\ cache_reads' = cache_reads + 1
    /\ IF cache_dir /\ IsFile(cache_file)
          THEN IF cache_file = "valid"
                  THEN Return([kind |-> "cached", loc |-> Me, obj |-> 1])
                  ELSE Raise("UnpicklingError")
          ELSE Continue("network")
    /\ UNCHANGED << call, known_workers, local_store, cache_dir, cache_file,
                    local_searches, queried, replies, mpc_config, sl_in, sl_out >>

(* Lines 174-195: the look-up in the disk cache *)
CacheLookup ==
    /\ call = "search_resource"
    /\ pc = "cache"
    /\ cache_reads' = cache_reads + 1
    /\ IF cache_dir /\ IsFile(cache_file) /\ GetSize(cache_file) > 0
          THEN IF cache_file = "valid"
                  THEN Return([kind |-> "cached", loc |-> Me, obj |-> 1])
                  ELSE Raise("UnpicklingError")
          ELSE Continue("network")
    /\ UNCHANGED << call, known_workers, local_store, cache_dir, cache_file,
                    local_searches, queried, replies, mpc_config, sl_in, sl_out >>

(* Lines 199-215 with the return dropped: the loop goes on after a match *)
RequestSearchNoReturn ==
    /\ call = "search_resource"
    /\ pc = "network"
    /\ Len(queried) < Len(known_workers)
    /\ LET location == known_workers[Len(queried) + 1] IN
         \E reply \in Replies :
            /\ queried' = Append(queried, location)
            /\ replies' = Append(replies, reply)
            /\ IF reply.kind = "error"
                  THEN Raise("TransportError")
                  ELSE IF reply.n > 1
                          THEN Raise("AssertionError")
                          ELSE Continue("network")
    /\ UNCHANGED << call, known_workers, local_store, cache_dir, cache_file,
                    local_searches, cache_reads, mpc_config, sl_in, sl_out >>

(* Lines 199-215: one iteration of the loop over the known workers *)
RequestSearch ==
    /\ call = "search_resource"
    /\ pc = "network"
    /\ Len(queried) < Len(known_workers)
    /\ LET location == known_workers[Len(queried) + 1] IN
         \E reply \in Replies :
            /\ queried' = Append(queried, location)
            /\ replies' = Append(replies, reply)
            /\ IF reply.kind = "error"
                  THEN Raise("TransportError")
                  ELSE IF reply.n > 0
                          THEN IF reply.n = 1
                                  THEN Return([kind |-> "pointer", loc |-> location, obj |-> 1])
                                  ELSE Raise("AssertionError")
                          ELSE Continue("network")
    /\ UNCHANGED << call, known_workers, local_store, cache_dir, cache_file,
                    local_searches, cache_reads, mpc_config, sl_in, sl_out >>

(* The loop of line 199 ending one worker early *)
LoopExhaustedEarly ==
    /\ call = "search_resource"
    /\ pc = "network"
    /\ Len(queried) + 1 >= Len(known_workers)
    /\ Return(NoneResult)
    /\ UNCHANGED << call, known_workers, local_store, cache_dir, cache_file,
                    local_searches, cache_reads, queried, replies, mpc_config,
                    sl_in, sl_out >>

(* Line 199 once the dictionary is exhausted: the function falls off its end *)
(* and returns None                                                          *)
LoopExhausted ==
    /\ call = "search_resource"
    /\ pc = "network"
    /\ Len(queried) = Len(known_workers)
    /\ Return(NoneResult)
    /\ UNCHANGED << call, known_workers, local_store, cache_dir, cache_file,
                    local_searches, cache_reads, queried, replies, mpc_config,
                    sl_in, sl_out >>

-----------------------------------------------------------------------------
(* create_mpc_config *)

InitMpc ==
    /\ call = "create_mpc_config"
    /\ pc = "start"
    /\ known_workers \in Registries
    /\ local_store = << >>
    /\ cache_dir = FALSE
    /\ cache_file = "missing"
    /\ local_searches = 0
    /\ cache_reads = 0
    /\ queried = << >>
    /\ replies = << >>
    /\ outcome = "pending"
    /\ error = "none"
    /\ result = NoResult
    /\ mpc_config = EmptyDict
    /\ sl_in = NoSlice
    /\ sl_out = << 0, 0 >>

(* Lines 267-271: the known workers except "me", in the order of the dict *)
KnownWorkersExceptMe(reg) == SelectSeq(reg, LAMBDA id : id # Me)

Range(s) == { s[i] : i \in DOMAIN s }

(* f"node_{i}" *)
NodeKey(i) == CASE i = 0 -> "node_0" [] i = 1 -> "node_1" [] i = 2 -> "node_2"

(* Lines 283-284 and 298-299: mpc_config[f"node_{i}"] for the enumerated ids *)
NodesOf(ids) == [k \in { NodeKey(i - 1) : i \in DOMAIN ids } |->
                    ids[CHOOSE i \in DOMAIN ids : NodeKey(i - 1) = k]]

(* Line 295: np.random.choice(a, size=3, replace=False), every possible draw *)
Draws(known) ==
    { d \in [1..3 -> Range(known)] : \A i, j \in 1..3 : i # j => d[i] # d[j] }

(* Lines 239-301 *)
create_mpc_config ==
    /\ call = "create_mpc_config"
    /\ pc = "start"
    /\ LET known == KnownWorkersExceptMe(known_workers) IN
         \/ /\ Len(known) = 1
            /\ mpc_config' = EmptyDict
            /\ Return(NoneResult)
         \/ /\ Len(known) = 0
            /\ mpc_config' = EmptyDict
            /\ Return([kind |-> "dict", loc |-> Me, obj |-> 0])
         \/ /\ Len(known) = 2
            /\ mpc_config' = (NodesOf(known) @@ ("node_2" :> NodesOf(known)["node_1"]))
            /\ Return([kind |-> "dict", loc |-> Me, obj |-> 0])
         \/ /\ Len(known) >= 3
            /\ \E selected_node_ids \in Draws(known) :
                  mpc_config' = NodesOf(selected_node_ids)
            /\ Return([kind |-> "dict", loc |-> Me, obj |-> 0])
    /\ UNCHANGED << call, known_workers, local_store, cache_dir, cache_file,
                    local_searches, cache_reads, queried, replies, sl_in, sl_out >>

-----------------------------------------------------------------------------
(* normalize_slice *)

OptInts == { None } \cup { Some(v) : v \in (0 - MaxIdx)..MaxIdx }

InitSlice ==
    /\ call = "normalize_slice"
    /\ pc = "start"
    /\ known_workers = << >>
    /\ local_store = << >>
    /\ cache_dir = FALSE
    /\ cache_file = "missing"
    /\ local_searches = 0
    /\ cache_reads = 0
    /\ queried = << >>
    /\ replies = << >>
    /\ outcome = "pending"
    /\ error = "none"
    /\ result = NoResult
    /\ mpc_config = EmptyDict
    /\ sl_in \in [length : 0..MaxLen, start : OptInts, stop : OptInts,
                  step : { None, Some(1), Some(2) }]
    /\ sl_out = << 0, 0 >>

(* Lines 46-69 without the max(start, stop) of line 67 *)
SliceBoundsNoMax(length, start, stop) ==
    LET start1 == IF IsNone(start) THEN 0
                  ELSE IF Val(start) < 0 THEN Val(start) + length ELSE Val(start)
        start2 == Min(length, Max(0, start1))
        stop1 == IF IsNone(stop) THEN length
                 ELSE IF Val(stop) < 0 THEN Val(stop) + length ELSE Val(stop)
        stop2 == Min(length, stop1)
    IN  << start2, stop2 >>

(* Lines 46-69: the pair normalize_slice computes *)
SliceBounds(length, start, stop) ==
    LET start1 == IF IsNone(start) THEN 0
                  ELSE IF Val(start) < 0 THEN Val(start) + length ELSE Val(start)
        start2 == Min(length, Max(0, start1))
        stop1 == IF IsNone(stop) THEN length
                 ELSE IF Val(stop) < 0 THEN Val(stop) + length ELSE Val(stop)
        stop2 == Min(length, Max(start2, stop1))
    IN  << start2, stop2 >>

(* Lines 29-69 *)
normalize_slice ==
    /\ call = "normalize_slice"
    /\ pc = "start"
    /\ IF IsNone(sl_in.step) \/ sl_in.step = Some(1)
          THEN /\ sl_out' = SliceBounds(sl_in.length, sl_in.start, sl_in.stop)
               /\ Return([kind |-> "pair", loc |-> Me, obj |-> 0])
          ELSE /\ Raise("AssertionError")
               /\ UNCHANGED sl_out
    /\ UNCHANGED << call, known_workers, local_store, cache_dir, cache_file,
                    local_searches, cache_reads, queried, replies, mpc_config,
                    sl_in >>

-----------------------------------------------------------------------------
Init == InitSearch \/ InitMpc \/ InitSlice

Next ==
    \/ LocalSearch
    \/ CacheLookup
    \/ RequestSearch
    \/ LoopExhausted
    \/ create_mpc_config
    \/ normalize_slice

Spec == Init /\ [][Next]_vars

-----------------------------------------------------------------------------
(* Properties of search_resource *)

InSearch == call = "search_resource"

(* The cache holds no entry for the query, or a zero-length one *)
CacheAbsentOrEmpty == ~cache_dir \/ cache_file \in {"missing", "empty"}

(* The cache holds a non-empty file for the query *)
CacheEntryNonEmpty == cache_dir /\ IsFile(cache_file) /\ GetSize(cache_file) > 0

ZeroMatches == [kind |-> "list", n |-> 0]
OneMatch == [kind |-> "list", n |-> 1]

(* C1: once the local search has returned exactly one match, search_resource *)
(* has returned that very object, has read the disk cache 0 times and has    *)
(* sent no request_search to any worker.                                     *)
C1_TierShortCircuit ==
    (InSearch /\ local_searches > 0 /\ Len(local_store) = 1) =>
        /\ pc = "done"
        /\ outcome = "returned"
        /\ result = [kind |-> "object", loc |-> Me, obj |-> local_store[1]]
        /\ cache_reads = 0
        /\ queried = << >>

C1_Witness ==
    /\ InSearch /\ pc = "done" /\ Len(local_store) = 1
    /\ result.kind = "object"
    /\ cache_dir /\ cache_file = "valid"
    /\ Len(known_workers) >= 2

(* C2: once the local search has returned more than one match, the call has *)
(* ended by raising the assertion error of the ambiguity check; it returned  *)
(* none of the matches, read the cache 0 times and sent no request_search.   *)
C2_AmbiguityDetection ==
    (InSearch /\ local_searches > 0 /\ Len(local_store) > 1) =>
        /\ pc = "done"
        /\ outcome = "raised"
        /\ error = "AssertionError"
        /\ result = NoResult
        /\ cache_reads = 0
        /\ queried = << >>

C2_Witness ==
    /\ InSearch /\ pc = "done" /\ Len(local_store) = 2
    /\ error = "AssertionError"
    /\ cache_dir /\ cache_file = "valid"
    /\ Len(known_workers) >= 2

(* C3: with no local match and a cache entry that is absent (directory or   *)
(* file missing) or zero-length, the cache look-up raises nothing and        *)
(* returns nothing: the call moves on to the loop over the known workers,    *)
(* and it cannot end before the first known worker was sent a                *)
(* request_search; any error it ends with comes from a worker's reply.       *)
C3_CacheMissFallthrough ==
    (InSearch /\ Len(local_store) = 0 /\ CacheAbsentOrEmpty /\ cache_reads > 0) =>
        /\ pc \in {"network", "done"}
        /\ result.kind # "cached"
        /\ error # "UnpicklingError"
        /\ (error # "none" => Len(queried) > 0)
        /\ (pc = "done" /\ Len(known_workers) > 0 =>
                Len(queried) > 0 /\ queried[1] = known_workers[1])

C3_Witness ==
    /\ InSearch /\ Len(local_store) = 0
    /\ cache_dir /\ cache_file = "empty"
    /\ cache_reads = 1
    /\ Len(queried) >= 1
    /\ error = "none"

(* C4: the workers are queried one at a time in the order of the registry;  *)
(* every worker queried before the last one returned zero matches; as soon   *)
(* as a worker returns exactly one match the call has returned the pointer   *)
(* to the object on that worker, and that worker is the last one queried, so *)
(* that no later worker of the registry is ever sent a request_search.       *)
C4_FirstFoundWins ==
    InSearch =>
        /\ Len(replies) = Len(queried)
        /\ Len(queried) <= Len(known_workers)
        /\ queried = SubSeq(known_workers, 1, Len(queried))
        /\ \A i \in DOMAIN replies : i < Len(replies) => replies[i] = ZeroMatches
        /\ \A i \in DOMAIN replies :
              replies[i] = OneMatch =>
                 /\ i = Len(queried)
                 /\ pc = "done"
                 /\ outcome = "returned"
                 /\ result = [kind |-> "pointer", loc |-> known_workers[i], obj |-> 1]
        /\ (result.kind = "pointer" =>
                /\ Len(replies) > 0
                /\ replies[Len(replies)] = OneMatch
                /\ Len(local_store) = 0
                /\ ~(CacheEntryNonEmpty))

C4_Witness ==
    /\ InSearch /\ pc = "done"
    /\ result.kind = "pointer"
    /\ Len(queried) = 2
    /\ Len(known_workers) >= 3
    /\ result.loc = known_workers[2]

(* C5: a request_search that fails counts as zero matches of that worker: it *)
(* never ends the call with the transport error, and the call does not stop  *)
(* at the failed worker while workers of the registry are still unqueried.   *)
C5_TransportFailureIsolation ==
    InSearch =>
        \A i \in DOMAIN replies :
            replies[i].kind = "error" =>
                /\ error # "TransportError"
                /\ (pc = "done" /\ i = Len(replies) => i = Len(known_workers))

(* C6: a finished call has returned None if and only if the local search     *)
(* found nothing, the cache held no non-empty entry for the query, and every *)
(* worker of the registry was queried, once and in order, and returned zero  *)
(* matches; such a call raised nothing.                                      *)
C6_NotFoundCompleteness ==
    (InSearch /\ pc = "done") =>
        /\ (outcome = "returned" /\ result = NoneResult)
              <=> /\ Len(local_store) = 0
                  /\ ~CacheEntryNonEmpty
                  /\ queried = known_workers
                  /\ Len(replies) = Len(known_workers)
                  /\ \A i \in DOMAIN replies : replies[i] = ZeroMatches
        /\ (result = NoneResult =>
                /\ error = "none"
                /\ local_searches = 1
                /\ cache_reads = 1)

C6_Witness ==
    /\ InSearch /\ pc = "done"
    /\ outcome = "returned" /\ result = NoneResult
    /\ Len(known_workers) >= 3
    /\ cache_file = "empty"

-----------------------------------------------------------------------------
(* Properties of create_mpc_config *)

MpcDone == call = "create_mpc_config" /\ pc = "done"

(* The eligible set: every worker of the registry except the local one *)
Eligible == Range(known_workers) \ {Me}

ConfigValues == { mpc_config[k] : k \in DOMAIN mpc_config }

(* C7: with at least 3 eligible workers the returned config has exactly the *)
(* roles node_0, node_1 and crypto_provider, mapped to 3 pairwise distinct   *)
(* eligible workers, none of them the local worker.                          *)
C7_SelectorSufficiency ==
    (MpcDone /\ Cardinality(Eligible) >= 3) =>
        /\ outcome = "returned"
        /\ result.kind = "dict"
        /\ DOMAIN mpc_config = {"node_0", "node_1", "crypto_provider"}
        /\ Cardinality(ConfigValues) = 3
        /\ ConfigValues \subseteq Eligible
        /\ Me \notin ConfigValues

(* C8: with exactly 2 eligible workers node_0 and node_1 are the two of     *)
(* them and the role crypto_provider is present, mapped to node_1's worker.  *)
C8_SelectorDegenerate ==
    (MpcDone /\ Cardinality(Eligible) = 2) =>
        /\ outcome = "returned"
        /\ result.kind = "dict"
        /\ {"node_0", "node_1", "crypto_provider"} \subseteq DOMAIN mpc_config
        /\ { mpc_config["node_0"], mpc_config["node_1"] } = Eligible
        /\ mpc_config["crypto_provider"] = mpc_config["node_1"]

(* C9: with fewer than 2 eligible workers (1 or 0) the call returns None: it *)
(* raises nothing and returns no config.                                     *)
C9_SelectorInsufficiency ==
    (MpcDone /\ Cardinality(Eligible) < 2) =>
        /\ outcome = "returned"
        /\ result = NoneResult
        /\ DOMAIN mpc_config = {}

-----------------------------------------------------------------------------
(* Properties of normalize_slice *)

SliceDone ==
    /\ call = "normalize_slice"
    /\ pc = "done"
    /\ (IsNone(sl_in.step) \/ sl_in.step = Some(1))

(* A bound b with -length <= b < 0 *)
NegativeInRange(x) ==
    /\ ~IsNone(x)
    /\ Val(x) < 0
    /\ 0 - sl_in.length <= Val(x)

SliceRangeAndNone ==
    /\ outcome = "returned"
    /\ 0 <= sl_out[1]
    /\ sl_out[1] <= sl_out[2]
    /\ sl_out[2] <= sl_in.length
    /\ (IsNone(sl_in.start) => sl_out[1] = 0)
    /\ (IsNone(sl_in.stop) => sl_out[2] = sl_in.length)
    /\ (NegativeInRange(sl_in.start) => sl_out[1] = Val(sl_in.start) + sl_in.length)

(* C10 as stated: for step None or 1 the returned pair satisfies            *)
(* 0 <= start' <= stop' <= length, a None start gives 0 and a None stop      *)
(* gives length, and a negative start or stop b with -length <= b < 0 is     *)
(* returned as b + length.                                                   *)
C10_NormalizeSliceOriginal ==
    SliceDone =>
        /\ SliceRangeAndNone
        /\ (NegativeInRange(sl_in.stop) => sl_out[2] = Val(sl_in.stop) + sl_in.length)

(* C10 as amended: for step None or 1 the returned pair satisfies           *)
(* 0 <= start' <= stop' <= length, a None start gives 0 and a None stop      *)
(* gives length, a negative start b with -length <= b < 0 is returned as     *)
(* b + length, and a negative stop b with -length <= b < 0 is returned as    *)
(* the larger of start' and b + length.                                      *)
C10_NormalizeSliceBounds ==
    SliceDone =>
        /\ SliceRangeAndNone
        /\ (NegativeInRange(sl_in.stop) =>
                sl_out[2] = Max(sl_out[1], Val(sl_in.stop) + sl_in.length))

C10_Witness ==
    /\ SliceDone
    /\ sl_in.length = 6
    /\ sl_in.start = Some(0 - 4)
    /\ sl_in.stop = Some(0 - 1)
    /\ sl_out = << 2, 5 >>

=============================================================================
